---- MODULE Spec2Model ----
(***************************************************************************)
(* A model of docx_tools.py: the path guard, read_docx (the body walk and  *)
(* the table merge resolution), the formatting extractors and write_docx.  *)
(*                                                                         *)
(* Python dictionaries with optional keys are functions whose DOMAIN is    *)
(* the set of keys present; `"k" in d` is "k" \in DOMAIN d.  Python list   *)
(* indices are kept 0-based as in the code; a list itself is a sequence,   *)
(* so element i of a list is the sequence's element i + 1.                 *)
(***************************************************************************)
EXTENDS Integers, Sequences, FiniteSets, TLC

VARIABLES
    \* ---- read_docx: the walk over doc.element.body ----
    body,             \* doc.element.body: the sequence of top-level elements
    elem_idx,         \* number of body elements the for loop has finished
    content,          \* the list read_docx returns
    rpos,             \* where the walk is: "body", "rows", "cells", "returned"
    table,            \* the table dict under construction (its "rows" list)
    table_row,        \* the row list under construction
    vertical_merges,  \* (row_idx, actual_col) -> cell_data
    row_idx,
    col_idx,
    col_offset,
    raw,              \* row.cells as iterated so far in the current table
    budget            \* raw cells the input document still holds

rvars == <<body, elem_idx, content, rpos, table, table_row, vertical_merges,
           row_idx, col_idx, col_offset, raw, budget>>

VARIABLES
    \* ---- the process: its configuration, the filesystem, the calls ----
    ALLOWED_DIR,      \* the module global set at import from $ALLOWED_DIR
    fs,               \* resolved path -> the file there, if any
    pc,               \* per caller: where its current call stands
    op,               \* per caller: "read" or "write"
    path,             \* per caller: the path argument
    data,             \* per caller: write_docx's data argument
    overwrite,        \* per caller: write_docx's overwrite argument
    doc,              \* per caller: the Document being built in memory
    result,           \* per caller: what the finished call returned
    err,              \* per caller: the exception the call raised, or ""
    fs0,              \* per caller: the filesystem when the call began
    inputs,           \* the arguments calls are drawn from
    calls_left,       \* calls still to be made
    saves,            \* the saves done so far, in order: who, which file
    mark,             \* per caller: Len(saves) when the call began
    rt_stage,         \* the read -> write -> read script: calls made
    rt_d              \* the script's first read result

wvars == <<ALLOWED_DIR, fs, pc, op, path, data, overwrite, doc, result, err,
           fs0, inputs, calls_left, saves, mark, rt_stage, rt_d>>

vars == <<rvars, wvars>>

----------------------------------------------------------------------------
\* Bounds of the explored inputs.
MaxBody == 3
MaxRows == 3
MaxCells == 3
WalkCells == 1
MaxCalls == 2
MaxParas == 2
MaxRuns == 2

\* Horizontal spans a raw cell may declare (w:gridSpan), 1 when undeclared.
\* A raw cell is an element of row.cells, as python-docx yields it.
Spans == {1, 2}

\* What a raw cell declares for w:vMerge: no element ("none"), val "restart",
\* a val that is falsy in Python ("empty"), or the explicit val "continue".
VMergeVals == {"none", "restart", "empty", "continue"}

----------------------------------------------------------------------------
\* Sequence helpers.
RECURSIVE Repeat(_, _)
Repeat(x, n) == IF n <= 0 THEN <<>> ELSE <<x>> \o Repeat(x, n - 1)

RECURSIVE SumSpans(_)
SumSpans(cells) ==
    IF cells = <<>> THEN 0 ELSE Head(cells).h_span + SumSpans(Tail(cells))

\* str.endswith on strings kept as sequences of characters.
EndsWith(s, suffix) ==
    /\ Len(s) >= Len(suffix)
    /\ SubSeq(s, Len(s) - Len(suffix) + 1, Len(s)) = suffix

SeqsUpTo(S, n) == UNION {[1..k -> S] : k \in 0..n}

----------------------------------------------------------------------------
\* Lengths.  python-docx keeps a Length in EMU; its .pt is EMU / 12700.  A
\* point value is kept here in twentieths of a point, the finest grain an
\* indent (twips) or a font size (half-points) can have, so .pt is EMU / 635.
EmuPerTwip == 635
EmuPerHalfPoint == 6350

Twips(n) == n * EmuPerTwip
LengthPt(emu) == emu \div EmuPerTwip
Pt(pt20) == pt20 * EmuPerTwip

\* WD_COLOR_INDEX members used here with their integer values: AUTO is 0,
\* so it is falsy in `if font.highlight_color:`.
WD_COLOR_INDEX == [AUTO |-> 0, BLACK |-> 1, RED |-> 6, YELLOW |-> 7]

WD_ALIGN_PARAGRAPH == [LEFT |-> 0, CENTER |-> 1, RIGHT |-> 2, JUSTIFY |-> 3]

\* A member of an enumeration by its value (member.name).
NameOf(enum, v) == CHOOSE n \in DOMAIN enum : enum[n] = v

\* dict with one more key set (d[k] = v).
SetKey(d, k, v) == (k :> v) @@ d

\* `if cond: d[k] = v`
SetIf(d, cond, k, v) == IF cond THEN SetKey(d, k, v) ELSE d

\* An accessor of python-docx that returns None when the property is not in
\* the XML: truthiness of obj.k for a boolean property.
Truthy(obj, k) == k \in DOMAIN obj /\ obj[k] = TRUE

\* extract_run_formatting: run is the run as its font accessors show it; a
\* property absent from DOMAIN run reads as None.
extract_run_formatting(run) ==
    LET d0  == [text |-> run.text]
        d1  == SetIf(d0, Truthy(run, "bold"), "bold", TRUE)
        d2  == SetIf(d1, Truthy(run, "italic"), "italic", TRUE)
        d3  == SetIf(d2, "underline" \in DOMAIN run /\ run.underline # "False",
                     "underline", IF "underline" \in DOMAIN run
                                  THEN run.underline ELSE "False")
        d4  == SetIf(d3, Truthy(run, "strike"), "strikethrough", TRUE)
        d5  == SetIf(d4, Truthy(run, "double_strike"), "double_strike", TRUE)
        d6  == SetIf(d5, Truthy(run, "superscript"), "superscript", TRUE)
        d7  == SetIf(d6, Truthy(run, "subscript"), "subscript", TRUE)
        d8  == SetIf(d7, "name" \in DOMAIN run /\ run.name # "",
                     "font_name", IF "name" \in DOMAIN run THEN run.name ELSE "")
        d9  == SetIf(d8, "size" \in DOMAIN run /\ run.size # 0,
                     "font_size", IF "size" \in DOMAIN run
                                  THEN LengthPt(run.size) ELSE 0)
        d10 == SetIf(d9, "color_rgb" \in DOMAIN run,
                     "font_color", IF "color_rgb" \in DOMAIN run
                                   THEN run.color_rgb ELSE "")
        d11 == SetIf(d10, "highlight_color" \in DOMAIN run
                          /\ run.highlight_color # 0,
                     "highlight", IF "highlight_color" \in DOMAIN run
                                  THEN NameOf(WD_COLOR_INDEX,
                                              run.highlight_color)
                                  ELSE "")
        d12 == SetIf(d11, Truthy(run, "all_caps"), "all_caps", TRUE)
        d13 == SetIf(d12, Truthy(run, "small_caps"), "small_caps", TRUE)
    IN  SetIf(d13, Truthy(run, "hidden"), "hidden", TRUE)

\* fmt.line_spacing: a float when the rule is a multiple of the line
\* height, else the Length.
SpacingRead(sp) ==
    IF sp.rule = "multiple" THEN [kind |-> "float", v |-> sp.v]
    ELSE [kind |-> "length", v |-> sp.v]

\* A Length-valued paragraph property is truthy when present and not 0.
HasLength(obj, k) == k \in DOMAIN obj /\ obj[k] # 0

\* extract_paragraph_formatting
extract_paragraph_formatting(para) ==
    LET d0 == <<>>
        d1 == SetIf(d0, para.style_name # "Normal", "style", para.style_name)
        d2 == SetIf(d1, "alignment" \in DOMAIN para,
                    "alignment", IF "alignment" \in DOMAIN para
                                 THEN NameOf(WD_ALIGN_PARAGRAPH, para.alignment)
                                 ELSE "")
        d3 == SetIf(d2, HasLength(para, "left_indent"),
                    "left_indent", IF "left_indent" \in DOMAIN para
                                   THEN LengthPt(para.left_indent) ELSE 0)
        d4 == SetIf(d3, HasLength(para, "right_indent"),
                    "right_indent", IF "right_indent" \in DOMAIN para
                                    THEN LengthPt(para.right_indent) ELSE 0)
        d5 == SetIf(d4, HasLength(para, "first_line_indent"),
                    "first_line_indent",
                    IF "first_line_indent" \in DOMAIN para
                    THEN LengthPt(para.first_line_indent) ELSE 0)
        d6 == SetIf(d5, "line_spacing" \in DOMAIN para
                        /\ para.line_spacing.v # 0,
                    "line_spacing", IF "line_spacing" \in DOMAIN para
                                    THEN SpacingRead(para.line_spacing)
                                    ELSE 0)
    IN  SetKey(d6, "runs",
               [i \in 1..Len(para.runs) |-> extract_run_formatting(para.runs[i])])

----------------------------------------------------------------------------
\* Paths.  A path is the sequence of its components below the root; the
\* model's filesystem has no symbolic links and every directory a path
\* names exists, so Path.resolve() only folds "." and ".." and doc.save
\* always succeeds, in one step.
RECURSIVE ResolveFrom(_, _)
ResolveFrom(done, rest) ==
    IF rest = <<>> THEN done
    ELSE IF Head(rest) = "." THEN ResolveFrom(done, Tail(rest))
    ELSE IF Head(rest) = ".."
         THEN ResolveFrom(IF done = <<>> THEN <<>>
                          ELSE SubSeq(done, 1, Len(done) - 1), Tail(rest))
    ELSE ResolveFrom(Append(done, Head(rest)), Tail(rest))

Resolve(p) == ResolveFrom(<<>>, p)

\* A faulty variant of Parents: Path.parent, the nearest ancestor alone.
ParentOnly(p) == IF p = <<>> THEN {} ELSE {SubSeq(p, 1, Len(p) - 1)}

\* Path.parents: every proper ancestor.
Parents(p) == {SubSeq(p, 1, k) : k \in 0..(Len(p) - 1)}

\* _get_allowed_dir: the environment variable is unset or empty (None), one
\* directory, or a JSON list of directories (it holds a "[").  The model's
\* value is [set |-> FALSE] for None, else the resolved directories.
_get_allowed_dir(env) ==
    IF env.kind \in {"unset", "empty"} THEN [set |-> FALSE, dirs |-> {}]
    ELSE [set |-> TRUE, dirs |-> {Resolve(d) : d \in env.dirs}]

\* _path_is_allowed: TRUE when the call goes on (the function returns True
\* or falls off its end), FALSE when it raises NotAuthorizedError.
_path_is_allowed(p) ==
    IF ~ALLOWED_DIR.set THEN TRUE
    ELSE IF \E dir \in ALLOWED_DIR.dirs : Resolve(p) = dir THEN TRUE
    ELSE IF ~(\E dir \in ALLOWED_DIR.dirs : dir \in Parents(Resolve(p)))
         THEN FALSE
    ELSE TRUE

----------------------------------------------------------------------------
\* write_docx: building the document in memory.

\* The paragraph styles of python-docx's default template, which Document()
\* opens; `para.style = name` raises KeyError for any other name.
TemplateStyles == {"Normal", "Heading 1", "Title"}

\* RGBColor.from_string accepts six hexadecimal digits.
HexColors == {"FF0000", "000000"}

\* d.get(k) is truthy.
GetTrue(d, k) == k \in DOMAIN d /\ d[k] = TRUE
GetStr(d, k) == k \in DOMAIN d /\ d[k] # ""
GetNum(d, k) == k \in DOMAIN d /\ d[k] # 0

\* A faulty variant of SizeStored: the size truncated to whole points.
SizeStoredWholePoints(emu) ==
    (emu \div (2 * EmuPerHalfPoint)) * (2 * EmuPerHalfPoint)

\* A font size is stored in half-points: Pt(x) truncated to them.
SizeStored(emu) == (emu \div EmuPerHalfPoint) * EmuPerHalfPoint

\* An indent is stored in twips.
IndentStored(emu) == (emu \div EmuPerTwip) * EmuPerTwip

\* Lines 285-315: one run of the paragraph.  [err, run]
BuildRun(run_info) ==
    LET r0  == [text |-> run_info.text]
        r1  == SetIf(r0, GetTrue(run_info, "bold"), "bold", TRUE)
        r2  == SetIf(r1, GetTrue(run_info, "italic"), "italic", TRUE)
        r3  == SetIf(r2, "underline" \in DOMAIN run_info,
                     "underline", IF "underline" \in DOMAIN run_info
                                  THEN run_info.underline ELSE "")
        r4  == SetIf(r3, GetTrue(run_info, "strikethrough"), "strike", TRUE)
        r5  == SetIf(r4, GetTrue(run_info, "double_strike"),
                     "double_strike", TRUE)
        r6  == SetIf(r5, GetTrue(run_info, "superscript"), "superscript", TRUE)
        r7  == SetIf(r6, GetTrue(run_info, "subscript"), "subscript", TRUE)
        r8  == SetIf(r7, GetStr(run_info, "font_name"),
                     "name", IF "font_name" \in DOMAIN run_info
                             THEN run_info.font_name ELSE "")
        r9  == SetIf(r8, GetNum(run_info, "font_size"),
                     "size", IF "font_size" \in DOMAIN run_info
                             THEN SizeStored(Pt(run_info.font_size)) ELSE 0)
        badColor == GetStr(run_info, "font_color")
                    /\ run_info.font_color \notin HexColors
        r10 == SetIf(r9, GetStr(run_info, "font_color"),
                     "color_rgb", IF "font_color" \in DOMAIN run_info
                                  THEN run_info.font_color ELSE "")
        badHighlight == GetStr(run_info, "highlight")
                        /\ run_info.highlight \notin DOMAIN WD_COLOR_INDEX
        r11 == SetIf(r10, GetStr(run_info, "highlight") /\ ~badHighlight,
                     "highlight_color",
                     IF GetStr(run_info, "highlight") /\ ~badHighlight
                     THEN WD_COLOR_INDEX[run_info.highlight] ELSE 0)
        r12 == SetIf(r11, GetTrue(run_info, "all_caps"), "all_caps", TRUE)
        r13 == SetIf(r12, GetTrue(run_info, "small_caps"), "small_caps", TRUE)
        r14 == SetIf(r13, GetTrue(run_info, "hidden"), "hidden", TRUE)
    IN  IF badColor THEN [err |-> "ValueError", run |-> r9]
        ELSE IF badHighlight THEN [err |-> "KeyError", run |-> r10]
        ELSE [err |-> "", run |-> r14]

\* `for run_info in para_info["runs"]`, stopped by the first exception.
RECURSIVE BuildRuns(_)
BuildRuns(runs) ==
    IF runs = <<>> THEN [err |-> "", runs |-> <<>>]
    ELSE LET first == BuildRun(Head(runs))
             rest == BuildRuns(Tail(runs))
         IN  IF first.err # "" THEN [err |-> first.err, runs |-> <<>>]
             ELSE IF rest.err # "" THEN rest
             ELSE [err |-> "", runs |-> <<first.run>> \o rest.runs]

\* fmt.line_spacing = value: a float sets a multiple of the line height, a
\* Length an exact height.
SpacingStored(v) ==
    IF v.kind = "float" THEN [rule |-> "multiple", v |-> v.v]
    ELSE [rule |-> "exact", v |-> IndentStored(v.v)]

\* Lines 262-315: one block of data.  [err, para]
BuildParagraph(para_info) ==
    LET p0 == [style_name |-> "Normal", runs |-> <<>>]
        badStyle == "style" \in DOMAIN para_info
                    /\ para_info.style \notin TemplateStyles
        p1 == IF "style" \in DOMAIN para_info
              THEN [p0 EXCEPT !.style_name = para_info.style] ELSE p0
        badAlign == "alignment" \in DOMAIN para_info
                    /\ para_info.alignment \notin DOMAIN WD_ALIGN_PARAGRAPH
        p2 == SetIf(p1, "alignment" \in DOMAIN para_info /\ ~badAlign,
                    "alignment",
                    IF "alignment" \in DOMAIN para_info /\ ~badAlign
                    THEN WD_ALIGN_PARAGRAPH[para_info.alignment] ELSE 0)
        p3 == SetIf(p2, "left_indent" \in DOMAIN para_info,
                    "left_indent", IF "left_indent" \in DOMAIN para_info
                                   THEN IndentStored(Pt(para_info.left_indent))
                                   ELSE 0)
        p4 == SetIf(p3, "right_indent" \in DOMAIN para_info,
                    "right_indent", IF "right_indent" \in DOMAIN para_info
                                    THEN IndentStored(Pt(para_info.right_indent))
                                    ELSE 0)
        p5 == SetIf(p4, "first_line_indent" \in DOMAIN para_info,
                    "first_line_indent",
                    IF "first_line_indent" \in DOMAIN para_info
                    THEN IndentStored(Pt(para_info.first_line_indent)) ELSE 0)
        p6 == SetIf(p5, "line_spacing" \in DOMAIN para_info,
                    "line_spacing", IF "line_spacing" \in DOMAIN para_info
                                    THEN SpacingStored(para_info.line_spacing)
                                    ELSE 0)
        runs == IF "runs" \in DOMAIN para_info
                THEN BuildRuns(para_info.runs)
                ELSE [err |-> "KeyError", runs |-> <<>>]
    IN  IF badStyle THEN [err |-> "KeyError", para |-> p0]
        ELSE IF badAlign THEN [err |-> "KeyError", para |-> p1]
        ELSE IF runs.err # "" THEN [err |-> runs.err, para |-> p6]
        ELSE [err |-> "", para |-> [p6 EXCEPT !.runs = runs.runs]]

\* `for para_info in data`, stopped by the first exception.  [err, doc]
RECURSIVE BuildDocument(_)
BuildDocument(d) ==
    IF d = <<>> THEN [err |-> "", doc |-> <<>>]
    ELSE LET first == BuildParagraph(Head(d))
             rest == BuildDocument(Tail(d))
         IN  IF first.err # "" THEN [err |-> first.err, doc |-> <<>>]
             ELSE IF rest.err # "" THEN rest
             ELSE [err |-> "", doc |-> <<first.para>> \o rest.doc]

\* read_docx of a file whose body holds paragraphs only.
ReadDocument(d) ==
    [i \in 1..Len(d) |->
        SetKey(extract_paragraph_formatting(d[i]), "type", "paragraph")]

----------------------------------------------------------------------------
\* The body elements.  A tag is its local name as a sequence of characters.
TagP    == <<"p">>
TagTbl  == <<"t", "b", "l">>
TagSect == <<"s", "e", "c", "t", "P", "r">>

PlainRun(t) == [text |-> t]
PlainPara(t) == [style_name |-> "Normal", runs |-> <<PlainRun(t)>>]

\* The paragraphs the walk's bodies are built from.
WalkParas == {PlainPara("a"),
              [style_name |-> "Heading 1", alignment |-> 1,
               runs |-> <<[text |-> "b", bold |-> TRUE]>>]}

Elements ==
    {[tag |-> TagP, para |-> p] : p \in WalkParas}
    \cup {[tag |-> TagTbl], [tag |-> TagSect]}

\* doc.tables and doc.paragraphs: the proxies of the body's w:tbl and w:p
\* children, in body order; a proxy is named by its element's position.
doc_tables(b) == SelectSeq([i \in 1..Len(b) |-> i], LAMBDA i : b[i].tag = TagTbl)
doc_paragraphs(b) == SelectSeq([i \in 1..Len(b) |-> i], LAMBDA i : b[i].tag = TagP)

\* A faulty variant of FindElement: the first proxy, whatever its element.
FindFirst(lst, e) == IF lst # <<>> THEN lst[1] ELSE 0

\* `for t in lst: if t._element is element: found = t; break`; 0 is None.
FindElement(lst, e) ==
    IF \E k \in 1..Len(lst) : lst[k] = e THEN e ELSE 0

----------------------------------------------------------------------------
\* read_docx, the merge resolution of one raw cell.

\* A faulty variant of PrevKey: the nearest earlier row that recorded a
\* cell at the column, however far above.
PrevKeyAnyRow(r, actual_col) ==
    LET above == {q \in 0..(r - 1) : <<q, actual_col>> \in DOMAIN vertical_merges}
    IN  IF above = {} THEN <<r - 1, actual_col>>
        ELSE <<CHOOSE q \in above : \A q2 \in above : q2 <= q, actual_col>>

\* The key the continuation branch looks up in vertical_merges.
PrevKey(r, actual_col) == <<r - 1, actual_col>>

\* A faulty variant of NextOffset: the whole span added.
NextOffsetWholeSpan(offset, h_span) == offset + h_span

\* col_offset after a cell of span h_span.
NextOffset(offset, h_span) == offset + (h_span - 1)

\* Whether the continuation branch is taken for merge_val.
IsContinuation(v_merge) == v_merge = "empty"

ReaderInit(bodies, cells) ==
    /\ body \in bodies
    /\ elem_idx = 0
    /\ content = <<>>
    /\ rpos = "body"
    /\ table = <<>>
    /\ table_row = <<>>
    /\ vertical_merges = <<>>
    /\ row_idx = 0
    /\ col_idx = 0
    /\ col_offset = 0
    /\ raw = <<>>
    /\ budget = cells

element == body[elem_idx + 1]

\* element.tag.endswith("tbl") and the table is found in doc.tables.
StartTable ==
    /\ rpos = "body" /\ elem_idx < Len(body)
    /\ EndsWith(element.tag, TagTbl)
    /\ IF FindElement(doc_tables(body), elem_idx + 1) # 0
       THEN /\ rpos' = "rows"
            /\ table' = <<>>
            /\ vertical_merges' = <<>>
            /\ row_idx' = 0
            /\ raw' = <<>>
            /\ UNCHANGED elem_idx
       ELSE /\ elem_idx' = elem_idx + 1
            /\ UNCHANGED <<rpos, table, vertical_merges, row_idx, raw>>
    /\ UNCHANGED <<body, content, table_row, col_idx, col_offset, budget,
                   wvars>>

\* The next row of table_obj.rows; a row of the input holds at least one cell.
StartRow ==
    /\ rpos = "rows" /\ Len(table) < MaxRows /\ budget > 0
    /\ rpos' = "cells"
    /\ table_row' = <<>>
    /\ col_offset' = 0
    /\ col_idx' = 0
    /\ raw' = Append(raw, <<>>)
    /\ UNCHANGED <<body, elem_idx, content, table, vertical_merges, row_idx,
                   budget,
                   wvars>>

\* One iteration of `for col_idx, cell in enumerate(row.cells)`.
ProcessCell(h_span, v_merge) ==
    /\ rpos = "cells" /\ budget > 0
    /\ LET actual_col == col_idx + col_offset
           fresh == [el |-> elem_idx + 1, row |-> row_idx, idx |-> col_idx]
           key == PrevKey(row_idx, actual_col)
           reuse == /\ v_merge # "none" /\ v_merge # "restart"
                    /\ IsContinuation(v_merge)
                    /\ key \in DOMAIN vertical_merges
           cell_data == IF reuse THEN vertical_merges[key] ELSE fresh
       IN  /\ col_offset' = NextOffset(col_offset, h_span)
           /\ vertical_merges' =
                IF v_merge = "restart" \/ reuse
                THEN (<<row_idx, actual_col>> :> cell_data) @@ vertical_merges
                ELSE vertical_merges
           /\ table_row' = table_row \o Repeat(cell_data, h_span)
           /\ raw' = [raw EXCEPT ![Len(raw)] =
                        Append(@, [h_span |-> h_span, v_merge |-> v_merge,
                                   actual_col |-> actual_col,
                                   cell_data |-> cell_data])]
    /\ col_idx' = col_idx + 1
    /\ budget' = budget - 1
    /\ UNCHANGED <<body, elem_idx, content, rpos, table, row_idx,
                   wvars>>

\* table["rows"].append(table_row)
EndRow ==
    /\ rpos = "cells" /\ col_idx > 0
    /\ table' = Append(table, table_row)
    /\ row_idx' = row_idx + 1
    /\ rpos' = "rows"
    /\ UNCHANGED <<body, elem_idx, content, table_row, vertical_merges,
                   col_idx, col_offset, raw, budget,
                   wvars>>

\* content.append(table)
EndTable ==
    /\ rpos = "rows"
    /\ content' = Append(content, [type |-> "table", rows |-> table])
    /\ elem_idx' = elem_idx + 1
    /\ rpos' = "body"
    /\ UNCHANGED <<body, table, table_row, vertical_merges, row_idx, col_idx,
                   col_offset, raw, budget,
                   wvars>>

\* element.tag.endswith("p"): a paragraph found in doc.paragraphs is
\* extracted, tagged and appended.
ReadParagraph ==
    /\ rpos = "body" /\ elem_idx < Len(body)
    /\ ~EndsWith(element.tag, TagTbl)
    /\ EndsWith(element.tag, TagP)
    /\ LET para == FindElement(doc_paragraphs(body), elem_idx + 1)
       IN  content' =
             IF para # 0
             THEN Append(content,
                         SetKey(extract_paragraph_formatting(body[para].para),
                                "type", "paragraph"))
             ELSE content
    /\ elem_idx' = elem_idx + 1
    /\ UNCHANGED <<body, rpos, table, table_row, vertical_merges, row_idx,
                   col_idx, col_offset, raw, budget,
                   wvars>>

\* Any other element is passed over.
SkipElement ==
    /\ rpos = "body" /\ elem_idx < Len(body)
    /\ ~EndsWith(element.tag, TagTbl)
    /\ ~EndsWith(element.tag, TagP)
    /\ elem_idx' = elem_idx + 1
    /\ UNCHANGED <<body, content, rpos, table, table_row, vertical_merges,
                   row_idx, col_idx, col_offset, raw, budget,
                   wvars>>

\* return content
ReturnContent ==
    /\ rpos = "body" /\ elem_idx = Len(body)
    /\ rpos' = "returned"
    /\ UNCHANGED <<body, elem_idx, content, table, table_row, vertical_merges,
                   row_idx, col_idx, col_offset, raw, budget,
                   wvars>>

ReaderNext ==
    \/ StartTable
    \/ StartRow
    \/ \E h \in Spans, v \in VMergeVals : ProcessCell(h, v)
    \/ EndRow
    \/ EndTable
    \/ ReadParagraph
    \/ SkipElement
    \/ ReturnContent

----------------------------------------------------------------------------
\* Calls of read_docx and write_docx against one filesystem.  A call is a
\* sequence of steps, split where it reads or writes the filesystem.
Procs == {1, 2}

P_data   == <<"data">>
P_x      == <<"data", "x.docx">>
P_sub    == <<"data", "sub", "x.docx">>
P_other  == <<"other", "x.docx">>
P_escape == <<"data", "..", "other", "x.docx">>
P_back   == <<"other", "..", "data", "x.docx">>
P_dot    == <<"data", ".", "sub", "..", "y.docx">>
P_src    == <<"data", "src.docx">>

AllPaths == {P_data, P_x, P_sub, P_other, P_escape, P_back, P_dot, P_src}
Files == {Resolve(p) : p \in AllPaths}

NoFile == [exists |-> FALSE, doc |-> <<>>]
File(d) == [exists |-> TRUE, doc |-> d]

\* A faulty variant of PathExists: any file at all exists.
PathExistsAnywhere(f, p) == \E file \in Files : f[file].exists

\* Path(output_path).exists()
PathExists(f, p) == f[Resolve(p)].exists

\* A faulty variant of DocumentNew: an empty document is put at the output
\* path before the build.
DocumentOnDisk(f, p) == [f EXCEPT ![Resolve(p)] = File(<<>>)]

\* doc = Document(): the new document lives in memory, the filesystem is
\* as it was.
DocumentNew(f, p) == f

\* A faulty variant of RefusesOverwrite: overwrite is not consulted.
RefusesAlways(ow, exists) == exists

\* The guard of lines 254-257: TRUE when ValueError is raised.
RefusesOverwrite(ow, exists) == ~ow /\ exists

NoResult == [ret |-> "", content |-> <<>>]

\* Values of $ALLOWED_DIR.
EnvUnset  == [kind |-> "unset", dirs |-> {}]
EnvEmpty  == [kind |-> "empty", dirs |-> {}]
EnvData   == [kind |-> "single", dirs |-> {P_data}]
EnvDotted == [kind |-> "single", dirs |-> {<<"data", "sub", "..">>}]
EnvList   == [kind |-> "json", dirs |-> {P_data, <<"srv">>}]
EnvNone   == [kind |-> "json", dirs |-> {}]

\* Arguments for write_docx's data.
DataA == <<[runs |-> <<[text |-> "a"]>>]>>
DataB == <<[type |-> "paragraph", style |-> "Heading 1",
            runs |-> <<[text |-> "b", bold |-> TRUE]>>],
           [type |-> "paragraph", alignment |-> "CENTER", left_indent |-> 720,
            runs |-> <<[text |-> "c", highlight |-> "YELLOW",
                        font_size |-> 205]>>]>>
DataBadStyle == <<[runs |-> <<[text |-> "a"]>>],
                  [style |-> "NoSuchStyle", runs |-> <<[text |-> "b"]>>]>>
DataBadAlign == <<[alignment |-> "MIDDLE", runs |-> <<[text |-> "a"]>>]>>
DataBadHighlight ==
    <<[runs |-> <<[text |-> "a"], [text |-> "b", highlight |-> "PURPLE"]>>]>>
DataBadColor == <<[runs |-> <<[text |-> "a", font_color |-> "red"]>>]>>
DataTable ==
    <<[type |-> "paragraph", runs |-> <<[text |-> "a"]>>],
      [type |-> "table", rows |-> <<<<[paragraphs |-> <<>>]>>>>],
      [type |-> "paragraph", runs |-> <<[text |-> "b"]>>]>>

WriterInit(envs, ins, ncalls, files) ==
    /\ \E env \in envs : ALLOWED_DIR = _get_allowed_dir(env)
    /\ fs \in files
    /\ pc = [p \in Procs |-> "idle"]
    /\ op = [p \in Procs |-> "write"]
    /\ path = [p \in Procs |-> P_x]
    /\ data = [p \in Procs |-> <<>>]
    /\ overwrite = [p \in Procs |-> FALSE]
    /\ doc = [p \in Procs |-> <<>>]
    /\ result = [p \in Procs |-> NoResult]
    /\ err = [p \in Procs |-> ""]
    /\ fs0 = [p \in Procs |-> fs]
    /\ inputs = ins
    /\ calls_left = ncalls
    /\ saves = <<>>
    /\ mark = [p \in Procs |-> 0]
    /\ rt_stage = 0
    /\ rt_d = <<>>

EmptyFs == [file \in Files |-> NoFile]
NoInputs == [paths |-> {}, datas |-> {}]

\* No call is made: the state of the process while read_docx alone is
\* explored.
WriterIdle == WriterInit({EnvUnset}, NoInputs, 0, {EmptyFs})

Finished(p) == pc[p] \in {"done", "failed"}

\* Caller p enters a call: the arguments are bound, nothing has run yet.
Enter(p, o, pth, d, ow) ==
    /\ pc[p] = "idle" \/ Finished(p)
    /\ pc' = [pc EXCEPT ![p] = "auth"]
    /\ op' = [op EXCEPT ![p] = o]
    /\ path' = [path EXCEPT ![p] = pth]
    /\ data' = [data EXCEPT ![p] = d]
    /\ overwrite' = [overwrite EXCEPT ![p] = ow]
    /\ doc' = [doc EXCEPT ![p] = <<>>]
    /\ result' = [result EXCEPT ![p] = NoResult]
    /\ err' = [err EXCEPT ![p] = ""]
    /\ fs0' = [fs0 EXCEPT ![p] = fs]
    /\ mark' = [mark EXCEPT ![p] = Len(saves)]
    /\ UNCHANGED <<ALLOWED_DIR, fs, inputs, saves, rvars>>

CallWrite(p) ==
    /\ calls_left > 0
    /\ calls_left' = calls_left - 1
    /\ \E pth \in inputs.paths, d \in inputs.datas, ow \in BOOLEAN :
          Enter(p, "write", pth, d, ow)
    /\ UNCHANGED <<rt_stage, rt_d>>

CallRead(p) ==
    /\ calls_left > 0
    /\ calls_left' = calls_left - 1
    /\ \E pth \in inputs.paths : Enter(p, "read", pth, <<>>, FALSE)
    /\ UNCHANGED <<rt_stage, rt_d>>

\* The call raises exception e.
Raise(p, e) ==
    /\ pc' = [pc EXCEPT ![p] = "failed"]
    /\ err' = [err EXCEPT ![p] = e]

\* _path_is_allowed(path), the first statement of both functions.
Auth(p) ==
    /\ pc[p] = "auth"
    /\ IF _path_is_allowed(path[p])
       THEN /\ pc' = [pc EXCEPT ![p] = IF op[p] = "read" THEN "open"
                                       ELSE "check"]
            /\ UNCHANGED err
       ELSE Raise(p, "NotAuthorizedError")
    /\ UNCHANGED <<ALLOWED_DIR, fs, op, path, data, overwrite, doc, result,
                   fs0, inputs, calls_left, saves, mark, rt_stage, rt_d,
                   rvars>>

\* `if not overwrite and Path(output_path).exists(): raise ValueError`,
\* then doc = Document().
Check(p) ==
    /\ pc[p] = "check"
    /\ IF RefusesOverwrite(overwrite[p], PathExists(fs, path[p]))
       THEN Raise(p, "ValueError") /\ UNCHANGED fs
       ELSE /\ pc' = [pc EXCEPT ![p] = "build"]
            /\ fs' = DocumentNew(fs, path[p])
            /\ UNCHANGED err
    /\ UNCHANGED <<ALLOWED_DIR, op, path, data, overwrite, doc, result,
                   fs0, inputs, calls_left, saves, mark, rt_stage, rt_d,
                   rvars>>

\* The loop over data: the document is built in memory.
Build(p) ==
    /\ pc[p] = "build"
    /\ LET built == BuildDocument(data[p])
       IN  IF built.err # ""
           THEN Raise(p, built.err) /\ UNCHANGED doc
           ELSE /\ pc' = [pc EXCEPT ![p] = "save"]
                /\ doc' = [doc EXCEPT ![p] = built.doc]
                /\ UNCHANGED err
    /\ UNCHANGED <<ALLOWED_DIR, fs, op, path, data, overwrite, result,
                   fs0, inputs, calls_left, saves, mark, rt_stage, rt_d,
                   rvars>>

\* doc.save(output_path); return "Saved file"
Save(p) ==
    /\ pc[p] = "save"
    /\ fs' = [fs EXCEPT ![Resolve(path[p])] = File(doc[p])]
    /\ saves' = Append(saves, [proc |-> p, file |-> Resolve(path[p])])
    /\ pc' = [pc EXCEPT ![p] = "done"]
    /\ result' = [result EXCEPT ![p] = [ret |-> "Saved file",
                                        content |-> <<>>]]
    /\ UNCHANGED <<ALLOWED_DIR, op, path, data, overwrite, doc, err, fs0,
                   inputs, calls_left, mark, rt_stage, rt_d, rvars>>

\* doc = Document(path) and the walk over its body.
Open(p) ==
    /\ pc[p] = "open"
    /\ IF PathExists(fs, path[p])
       THEN /\ pc' = [pc EXCEPT ![p] = "done"]
            /\ result' = [result EXCEPT ![p] =
                  [ret |-> "content",
                   content |-> ReadDocument(fs[Resolve(path[p])].doc)]]
            /\ UNCHANGED err
       ELSE Raise(p, "PackageNotFoundError") /\ UNCHANGED result
    /\ UNCHANGED <<ALLOWED_DIR, fs, op, path, data, overwrite, doc, fs0,
                   inputs, calls_left, saves, mark, rt_stage, rt_d, rvars>>

ReaderIdle == ReaderInit({<<>>}, 0)

\* write_docx called again and again by one caller.
WriteInputs == [paths |-> {P_x, P_back, P_other},
                datas |-> {DataA, DataB, DataBadStyle, DataBadAlign,
                           DataBadHighlight, DataBadColor, DataTable}]
InitWrite ==
    /\ ReaderIdle
    /\ WriterInit({EnvUnset, EnvData}, WriteInputs, MaxCalls, {EmptyFs})
NextWrite ==
    \/ CallWrite(1)
    \/ Auth(1)
    \/ Check(1)
    \/ Build(1)
    \/ Save(1)
SpecWrite == InitWrite /\ [][NextWrite]_vars

\* The guard under every configuration, for reads and writes.
GuardInputs == [paths |-> AllPaths \ {P_src}, datas |-> {DataA}]
InitGuard ==
    /\ ReaderIdle
    /\ WriterInit({EnvUnset, EnvEmpty, EnvData, EnvDotted, EnvList, EnvNone},
                  GuardInputs, MaxCalls, {EmptyFs})
NextGuard ==
    \/ CallWrite(1)
    \/ CallRead(1)
    \/ Auth(1)
    \/ Check(1)
    \/ Build(1)
    \/ Save(1)
    \/ Open(1)
SpecGuard == InitGuard /\ [][NextGuard]_vars

\* Two callers of write_docx whose steps interleave.
ConcInputs == [paths |-> {P_x, P_back, P_sub, P_other},
               datas |-> {DataA, DataB, DataBadStyle}]
InitConc ==
    /\ ReaderIdle
    /\ WriterInit({EnvData}, ConcInputs, MaxCalls, {EmptyFs})
NextConc ==
    \E p \in Procs :
        \/ CallWrite(p)
        \/ Auth(p)
        \/ Check(p)
        \/ Build(p)
        \/ Save(p)
SpecConc == InitConc /\ [][NextConc]_vars

\* The documents the read -> write -> read script starts from: paragraphs
\* and runs only, as python-docx shows them.  Lengths are in EMU.
RichRuns ==
    {[text |-> ""],
     [text |-> "a", bold |-> TRUE], [text |-> "a", bold |-> FALSE],
     [text |-> "a", italic |-> TRUE],
     [text |-> "a", underline |-> "True"],
     [text |-> "a", underline |-> "DOUBLE"],
     [text |-> "a", underline |-> "False"],
     [text |-> "a", strike |-> TRUE], [text |-> "a", double_strike |-> TRUE],
     [text |-> "a", superscript |-> TRUE], [text |-> "a", subscript |-> TRUE],
     [text |-> "a", name |-> "Arial"],
     [text |-> "a", size |-> 24 * EmuPerHalfPoint],
     [text |-> "a", size |-> 21 * EmuPerHalfPoint],
     [text |-> "a", color_rgb |-> "FF0000"],
     [text |-> "a", color_rgb |-> "000000"],
     [text |-> "a", highlight_color |-> WD_COLOR_INDEX.YELLOW],
     [text |-> "a", highlight_color |-> WD_COLOR_INDEX.AUTO],
     [text |-> "a", all_caps |-> TRUE], [text |-> "a", small_caps |-> TRUE],
     [text |-> "a", hidden |-> TRUE],
     [text |-> "a", bold |-> TRUE, italic |-> FALSE, underline |-> "True",
      name |-> "Arial", size |-> 21 * EmuPerHalfPoint,
      color_rgb |-> "FF0000", highlight_color |-> WD_COLOR_INDEX.RED]}

PlainRuns == {PlainRun("x"), PlainRun("y")}

RichParaFormats ==
    {[style_name |-> "Heading 1"], [style_name |-> "Custom"],
     [style_name |-> "Normal", alignment |-> WD_ALIGN_PARAGRAPH.LEFT],
     [style_name |-> "Normal", alignment |-> WD_ALIGN_PARAGRAPH.JUSTIFY],
     [style_name |-> "Normal", left_indent |-> Twips(720)],
     [style_name |-> "Normal", left_indent |-> 0],
     [style_name |-> "Normal", right_indent |-> Twips(361)],
     [style_name |-> "Normal", first_line_indent |-> Twips(0 - 360)],
     [style_name |-> "Normal",
      line_spacing |-> [rule |-> "multiple", v |-> 360]],
     [style_name |-> "Normal",
      line_spacing |-> [rule |-> "exact", v |-> Twips(240)]],
     [style_name |-> "Normal",
      line_spacing |-> [rule |-> "atLeast", v |-> Twips(300)]],
     [style_name |-> "Title", alignment |-> WD_ALIGN_PARAGRAPH.CENTER,
      left_indent |-> Twips(720), first_line_indent |-> Twips(0 - 360),
      line_spacing |-> [rule |-> "multiple", v |-> 276]]}

InsertAt(seq, i, x) == SubSeq(seq, 1, i - 1) \o <<x>> \o SubSeq(seq, i, Len(seq))

\* The sequences of at most n elements with one element of rich, at any
\* place, among elements of plain.
OneRich(rich, plain, n) ==
    UNION {{InsertAt(q, i, x) : i \in 1..(Len(q) + 1), x \in rich} :
              q \in SeqsUpTo(plain, n - 1)}

RichParas ==
    {SetKey(f, "runs", <<PlainRun("x")>>) : f \in RichParaFormats}
    \cup {[style_name |-> "Normal", runs |-> rs] :
              rs \in {<<>>} \cup OneRich(RichRuns, PlainRuns, MaxRuns)}

PlainParas == {PlainPara("a"), PlainPara("b")}

Docs == {<<>>} \cup OneRich(RichParas, PlainParas, MaxParas)

\* read_docx(src), write_docx of what it returned, read_docx of the file
\* written.
InitRT ==
    /\ ReaderIdle
    /\ WriterInit({EnvData}, NoInputs, 0,
                  {[EmptyFs EXCEPT ![Resolve(P_src)] = File(d)] : d \in Docs})

RTRead ==
    /\ rt_stage = 0
    /\ Enter(1, "read", P_src, <<>>, FALSE)
    /\ rt_stage' = 1
    /\ UNCHANGED <<rt_d, calls_left>>

RTWrite ==
    /\ rt_stage = 1 /\ pc[1] = "done"
    /\ Enter(1, "write", P_x, result[1].content, FALSE)
    /\ rt_d' = result[1].content
    /\ rt_stage' = 2
    /\ UNCHANGED calls_left

RTReadBack ==
    /\ rt_stage = 2 /\ pc[1] = "done"
    /\ Enter(1, "read", P_x, <<>>, FALSE)
    /\ rt_stage' = 3
    /\ UNCHANGED <<rt_d, calls_left>>

NextRT ==
    \/ RTRead
    \/ RTWrite
    \/ RTReadBack
    \/ Auth(1)
    \/ Check(1)
    \/ Build(1)
    \/ Save(1)
    \/ Open(1)
SpecRT == InitRT /\ [][NextRT]_vars

\* The walk over mixed bodies.
Init == ReaderInit(SeqsUpTo(Elements, MaxBody), WalkCells) /\ WriterIdle
Next == ReaderNext
Spec == Init /\ [][Next]_vars

\* One table, explored in depth.
InitTable == ReaderInit({<<e>> : e \in Elements}, MaxCells) /\ WriterIdle
SpecTable == InitTable /\ [][Next]_vars

----------------------------------------------------------------------------
\* Properties of read_docx.

\* The positions of the first n body elements that are paragraphs or tables.
Kept(n) ==
    SelectSeq([i \in 1..n |-> i],
              LAMBDA i : body[i].tag = TagP \/ body[i].tag = TagTbl)

TableCells(rows) ==
    UNION {{rows[r][c] : c \in 1..Len(rows[r])} : r \in 1..Len(rows)}

\* Block blk is what element number e of the body yields.
BlockOf(blk, e) ==
    IF body[e].tag = TagP
    THEN blk = SetKey(extract_paragraph_formatting(body[e].para),
                      "type", "paragraph")
    ELSE /\ blk.type = "table"
         /\ \A cell \in TableCells(blk.rows) : cell.el = e

\* C1: the blocks returned are, one for one and in body order, the blocks
\* of the body's paragraph and table elements, tagged "paragraph" or
\* "table"; none is dropped, duplicated or reordered.
C1_BodyOrder ==
    LET kept == Kept(elem_idx)
    IN  /\ Len(content) = Len(kept)
        /\ \A k \in 1..Len(kept) : BlockOf(content[k], kept[k])

C1_Witness ==
    /\ rpos = "returned"
    /\ Len(body) = 3 /\ Len(content) = 2
    /\ body[2].tag = TagSect
    /\ content[1].type = "table" /\ TableCells(content[1].rows) # {}
    /\ content[2].type = "paragraph" /\ "style" \in DOMAIN content[2]

\* The rows of the current table that are complete.
DoneRows == 1..Len(table)

\* A cell that continues a vertical merge: a w:vMerge that is not a restart.
DeclaresContinuation(cell) == cell.v_merge \in {"empty", "continue"}

\* The raw cell of row r (1-based) whose destination column is c, if any.
RawAt(r, c) == {j \in 1..Len(raw[r]) : raw[r][j].actual_col = c}

\* The object of raw cell j of row r is the one extracted for that cell.
Own(r, j) ==
    /\ raw[r][j].cell_data.row = r - 1
    /\ raw[r][j].cell_data.idx = j - 1

\* C2 (as claimed): in a run of rows r0..r1 whose cells at destination
\* column c are a restart followed by continuations, every row of the run
\* holds the restart cell's object at column c, and a cell of those rows
\* that declares no vertical merge holds its own fresh object.
C2_VerticalAlias ==
    \A r0 \in DoneRows : \A r1 \in DoneRows : \A j0 \in 1..Len(raw[r0]) :
        LET c == raw[r0][j0].actual_col
        IN  ( /\ r0 < r1
              /\ raw[r0][j0].v_merge = "restart"
              /\ \A r \in (r0 + 1)..r1 : \E j \in RawAt(r, c) :
                     DeclaresContinuation(raw[r][j]) )
            => /\ Own(r0, j0)
               /\ \A r \in r0..r1 :
                     /\ Len(table[r]) > c
                     /\ table[r][c + 1] = raw[r0][j0].cell_data
               /\ \A r \in r0..r1 : \A j \in 1..Len(raw[r]) :
                     raw[r][j].v_merge = "none" => Own(r, j)

Aliased(r, j) == raw[r][j].cell_data.row # r - 1

\* C9 (as claimed): an object taken from the mapping is also the object
\* directly above, at every output column it occupies.
C9_AboveEveryColumn ==
    \A r \in DoneRows : \A c \in 1..Len(table[r]) :
        (r >= 2 /\ table[r][c].row # r - 1)
        => (c <= Len(table[r - 1]) /\ table[r - 1][c] = table[r][c])

\* C9 (amended): an object taken from the mapping is the object directly
\* above at the cell's destination column, and at a further column of its
\* span when the cell above spans that column too; every row between the
\* row the object was extracted in and the row that reuses it carries it at
\* that destination column.
C9_AboveDestination ==
    \A r \in DoneRows : \A j \in 1..Len(raw[r]) :
        (r >= 2 /\ Aliased(r, j))
        => LET c == raw[r][j].actual_col
               obj == raw[r][j].cell_data
           IN  /\ c < Len(table[r - 1])
               /\ table[r - 1][c + 1] = obj
               /\ \E ja \in RawAt(r - 1, c) :
                     /\ raw[r - 1][ja].cell_data = obj
                     /\ \A i \in 1..raw[r][j].h_span :
                           i <= raw[r - 1][ja].h_span
                           => table[r - 1][c + i] = obj
               /\ \A q \in (obj.row + 1)..r :
                     \E jq \in RawAt(q, c) : raw[q][jq].cell_data = obj

C9_Witness ==
    /\ Len(table) = 3
    /\ \E j \in 1..Len(raw[3]) :
          /\ Aliased(3, j) /\ raw[3][j].cell_data.row = 0
          /\ raw[3][j].h_span = 2
          /\ \E ja \in RawAt(2, raw[3][j].actual_col) : raw[2][ja].h_span = 1

----------------------------------------------------------------------------
\* Properties of write_docx and of the path guard.

\* The file the call of caller p names.
Target(p) == Resolve(path[p])

Built(p) == BuildDocument(data[p])

\* C4 (as claimed): a finished write_docx call that found its path
\* existing fails with the existence error and leaves the file as it was
\* when overwrite is false, and succeeds and leaves its own content in the
\* file when overwrite is true.
C4_OverwriteAlwaysSucceeds ==
    (Finished(1) /\ op[1] = "write" /\ fs0[1][Target(1)].exists)
    => IF ~overwrite[1]
       THEN /\ pc[1] = "failed" /\ err[1] = "ValueError"
            /\ fs[Target(1)] = fs0[1][Target(1)]
       ELSE /\ pc[1] = "done"
            /\ fs[Target(1)] = File(Built(1).doc)

\* C4 (amended): with overwrite true the call succeeds and replaces the
\* file exactly when building the document raises nothing; when it raises,
\* the call fails with that exception and the earlier file is as it was.
C4_OverwriteGuard ==
    (Finished(1) /\ op[1] = "write" /\ fs0[1][Target(1)].exists)
    => IF ~overwrite[1]
       THEN /\ pc[1] = "failed" /\ err[1] = "ValueError"
            /\ fs[Target(1)] = fs0[1][Target(1)]
       ELSE IF Built(1).err = ""
       THEN /\ pc[1] = "done"
            /\ fs[Target(1)] = File(Built(1).doc)
       ELSE /\ pc[1] = "failed" /\ err[1] = Built(1).err
            /\ fs[Target(1)] = fs0[1][Target(1)]

C4_Witness ==
    /\ pc[1] = "done" /\ op[1] = "write" /\ overwrite[1]
    /\ fs0[1][Target(1)].exists
    /\ fs[Target(1)] # fs0[1][Target(1)]
    /\ fs[Target(1)] = File(Built(1).doc)

\* C5: a write_docx call changes the filesystem only by its save, the last
\* step: while it runs and when it has failed, for whatever cause, the
\* filesystem is as the call found it, and when it has succeeded the one
\* difference is the document at the output path.
C5_FailureLeavesFilesystem ==
    /\ pc[1] \in {"auth", "check", "build", "save", "failed"} => fs = fs0[1]
    /\ pc[1] = "failed" => err[1] # ""
    /\ pc[1] = "done"
       => /\ err[1] = ""
          /\ fs = [fs0[1] EXCEPT ![Target(1)] = File(Built(1).doc)]

C5_Witness ==
    /\ pc[1] = "failed" /\ err[1] = "KeyError" /\ overwrite[1]
    /\ data[1] = DataBadStyle
    /\ fs0[1][Target(1)].exists /\ fs = fs0[1]

\* C6: the guard lets a path through exactly when no allow-list is set or
\* the resolved path is an allowed directory or lies strictly below one.
AllowedAsClaimed(p) ==
    \/ ~ALLOWED_DIR.set
    \/ \E dir \in ALLOWED_DIR.dirs :
          LET r == Resolve(p)
          IN  \/ r = dir
              \/ (Len(r) > Len(dir) /\ \A k \in 1..Len(dir) : r[k] = dir[k])

\* C6: once the guard has run, the call has failed with
\* NotAuthorizedError exactly when the path is not allowed as claimed, and
\* a call so refused did nothing else: no file changed, nothing was built
\* or returned.
C6_PathGuard ==
    \A p \in Procs :
        pc[p] \notin {"idle", "auth"}
        => /\ AllowedAsClaimed(path[p])
                <=> ~(pc[p] = "failed" /\ err[p] = "NotAuthorizedError")
           /\ err[p] = "NotAuthorizedError"
                => /\ pc[p] = "failed" /\ fs = fs0[p]
                   /\ result[p] = NoResult /\ doc[p] = <<>>

C6_Witness ==
    /\ ALLOWED_DIR.set /\ ALLOWED_DIR.dirs = {P_data}
    /\ pc[1] = "failed" /\ err[1] = "NotAuthorizedError"
    /\ op[1] = "read" /\ path[1] = P_escape
    /\ fs[Resolve(P_x)].exists

\* The blocks of d that are not tables.
HasTable(d) ==
    \E i \in 1..Len(d) : "type" \in DOMAIN d[i] /\ d[i].type = "table"
ParagraphBlocks(d) ==
    SelectSeq(d, LAMBDA b : ~("type" \in DOMAIN b /\ b.type = "table"))

\* C8 (as claimed): a write_docx call whose data holds table blocks, and
\* which the guard and the existence check let through, writes the
\* document of the data's paragraph blocks, in their order.
C8_TablesNotEmitted ==
    ( /\ Finished(1) /\ op[1] = "write" /\ HasTable(data[1])
      /\ _path_is_allowed(path[1])
      /\ ~RefusesOverwrite(overwrite[1], fs0[1][Target(1)].exists) )
    => /\ pc[1] = "done"
       /\ fs[Target(1)] = File(BuildDocument(ParagraphBlocks(data[1])).doc)

\* Another caller saved to p's file after p's call began.
Meddled(p) ==
    \E i \in (mark[p] + 1)..Len(saves) :
        saves[i].proc # p /\ saves[i].file = Target(p)

\* What p's call raises when it runs alone from fs0[p].
ErrAlone(p) ==
    IF ~AllowedAsClaimed(path[p]) THEN "NotAuthorizedError"
    ELSE IF ~overwrite[p] /\ fs0[p][Target(p)].exists THEN "ValueError"
    ELSE Built(p).err

\* The caller whose save to file came last.
LastSaver(file) ==
    LET at == {i \in 1..Len(saves) : saves[i].file = file}
    IN  saves[CHOOSE i \in at : \A k \in at : k <= i].proc

\* C10: a finished call whose file no other caller saved to, as every call
\* on a path of its own, ends as it would alone and leaves the file as it
\* would alone; two calls with overwrite false that both found the path
\* absent and both saved both succeed, and the file is the later save's.
C10_RaceAndIndependence ==
    /\ \A p \in Procs :
          (Finished(p) /\ ~Meddled(p))
          => /\ err[p] = ErrAlone(p)
             /\ fs[Target(p)] = IF err[p] = "" THEN File(Built(p).doc)
                                ELSE fs0[p][Target(p)]
    /\ \A p \in Procs : \A q \in Procs \ {p} :
          ( /\ pc[p] = "done" /\ pc[q] = "done"
            /\ Target(p) = Target(q)
            /\ ~overwrite[p] /\ ~overwrite[q] )
          => /\ ~fs0[p][Target(p)].exists /\ ~fs0[q][Target(q)].exists
             /\ result[p].ret = "Saved file" /\ result[q].ret = "Saved file"
             /\ fs[Target(p)] = File(Built(LastSaver(Target(p))).doc)

C10_Witness ==
    /\ pc[1] = "done" /\ pc[2] = "done"
    /\ path[1] = P_x /\ path[2] = P_x
    /\ ~overwrite[1] /\ ~overwrite[2]
    /\ ~fs0[1][Target(1)].exists /\ ~fs0[2][Target(2)].exists
    /\ data[1] = DataA /\ data[2] = DataB
    /\ saves = <<[proc |-> 1, file |-> Target(1)],
                 [proc |-> 2, file |-> Target(2)]>>
    /\ fs[Target(1)] = File(Built(2).doc)

----------------------------------------------------------------------------
\* The round trip.

SourceDoc == fs[Resolve(P_src)].doc

\* C7 (as claimed): the write of what the first read returned succeeds,
\* and the read of the file written returns the same again.
C7_RoundTripAnyDocument ==
    /\ (rt_stage = 2 /\ Finished(1)) => pc[1] = "done"
    /\ (rt_stage = 3 /\ Finished(1))
       => (pc[1] = "done" /\ result[1].content = rt_d)

\* The paragraph styles of the source are styles of the writer's template.
StylesKnown ==
    \A i \in 1..Len(SourceDoc) : SourceDoc[i].style_name \in TemplateStyles

\* C7 (amended): for a document of paragraphs and runs whose paragraph
\* styles all exist in the writer's default template, the write of what the
\* first read returned succeeds and the read of the file written returns
\* the same again.
C7_RoundTrip ==
    StylesKnown
    => /\ (rt_stage = 2 /\ Finished(1)) => pc[1] = "done"
       /\ (rt_stage = 3 /\ Finished(1))
          => (pc[1] = "done" /\ result[1].content = rt_d)

C7_Witness ==
    /\ rt_stage = 3 /\ pc[1] = "done" /\ result[1].content = rt_d
    /\ Len(rt_d) = 2 /\ Len(rt_d[1].runs) = 2
    /\ "font_size" \in DOMAIN rt_d[1].runs[2]
    /\ "highlight" \in DOMAIN rt_d[1].runs[2]
    /\ rt_d[2].runs[1].text = "b"

====
